---- MODULE Spec2Model ----
(***************************************************************************)
(* Model of the expression validator ("Проверка выражений.c"): the scanner *)
(* isValidExpression, one action per branch of its loop, and the program   *)
(* main that reads one line, strips the newline, calls the scanner and     *)
(* prints the verdict.  After it come the journal analyser ("Журнал       *)
(* проходной.c", JournalSpec) and the phrase search ("Поиск                *)
(* словосочетаний.c", MatchSpec for matchPhrase and SearchSpec for main).  *)
(* Each specification runs one program and holds the others idle.          *)
(*                                                                         *)
(* Characters are one-character strings.  Indices i, len are the C         *)
(* indices (0-based); expr[i] of the source is expr[i + 1] here.           *)
(***************************************************************************)
EXTENDS Integers, Sequences, FiniteSets, TLC

VARIABLES
    expr,                 \* isValidExpression: the argument (a sequence of characters)
    len,                  \* isValidExpression: len = strlen(expr)
    i,                    \* isValidExpression: the loop index
    current_state,        \* isValidExpression: the State of the automaton
    parenthesis_balance,  \* isValidExpression: the balance counter
    pc,                   \* isValidExpression: "idle", "loop", "digits", "done"
    verdict,              \* isValidExpression: "none" until it returns, then TRUE or FALSE
    examined,             \* history: the indices assigned to current_char, in order
    stdin,                \* main: the content of standard input
    stdin_pos,            \* main: how many characters of stdin have been read
    read_error,           \* main: TRUE when the read of standard input fails
    buffer,               \* main: the string held in buffer (up to its terminating zero)
    main_pc,              \* main: "none", "fgets", "strchr", "call", "wait", "exited"
    output,               \* main: the lines printed so far
    exit_status,          \* main: -1 while running, then the value returned by main
    input_journal,        \* journal: input.txt, [exists, n, records]
    journal_n,            \* journal: n, the number of records read from the first line
    events,               \* journal: the array of events, as far as it is filled
    journal_i,            \* journal: the loop index i of main
    current_people,       \* journal: people present after the events processed so far
    max_people,           \* journal: the largest value current_people has had
    current_max_period_start_time,  \* journal: start of the peak period being measured
    max_period_duration,  \* journal: length of the best peak period, -1 when none
    result_start_time,    \* journal: start of the best peak period
    result_end_time,      \* journal: end of the best peak period
    journal_pc,           \* journal: "none", "open", "records", "sort", "sweep", "exited"
    journal_output,       \* journal: the lines written to output.txt
    journal_status,       \* journal: -1 while running, then the value returned by main
    input_search,         \* search: input.txt, [exists, content]
    phrase,               \* search: the string held in phrase
    text,                 \* search: the string held in text (text_len characters)
    match_flags,          \* search: match_flags[0 .. text_len - 1]
    search_i,             \* search: the loop index i of main
    search_pc,            \* search: "none", "open", "strip", "text", "search", "output", "exited"
    search_output,        \* search: the characters written to output.txt
    search_status,        \* search: -1 while running, then the value returned by main
    text_ptr,             \* matchPhrase: the string its first argument points to
    phrase_ptr,           \* matchPhrase: the string its second argument points to
    match_t,              \* matchPhrase: t - text_ptr
    match_p,              \* matchPhrase: p - phrase_ptr
    match_pc,             \* matchPhrase: "idle", "loop", "done"
    match_result          \* matchPhrase: "none" until it returns, then TRUE or FALSE

vars == <<expr, len, i, current_state, parenthesis_balance, pc, verdict, examined,
          stdin, stdin_pos, read_error, buffer, main_pc, output, exit_status,
          input_journal, journal_n, events, journal_i, current_people, max_people,
          current_max_period_start_time, max_period_duration, result_start_time,
          result_end_time, journal_pc, journal_output, journal_status,
          input_search, phrase, text, match_flags, search_i, search_pc, search_output,
          search_status, text_ptr, phrase_ptr, match_t, match_p, match_pc, match_result>>

scanner_vars == <<expr, len, i, current_state, parenthesis_balance, pc, verdict, examined>>
main_vars == <<stdin, stdin_pos, read_error, buffer, main_pc, output, exit_status>>
journal_vars == <<input_journal, journal_n, events, journal_i, current_people, max_people,
                  current_max_period_start_time, max_period_duration, result_start_time,
                  result_end_time, journal_pc, journal_output, journal_status>>

\* the variables of the programs other than the expression validator
search_vars == <<input_search, phrase, text, match_flags, search_i, search_pc,
                 search_output, search_status>>
matcher_vars == <<text_ptr, phrase_ptr, match_t, match_p, match_pc, match_result>>

other_programs == <<journal_vars, search_vars, matcher_vars>>

(***************************************************************************)
(* Bounds of the model.                                                    *)
(***************************************************************************)
\* longest argument given to isValidExpression when it is checked on its own
MaxLen == 4
\* longest content of standard input given to main
MaxStdin == 4
\* longest run of signs or digits inserted when two inputs are compared
MaxRun == 2
\* longest continuation appended to a rejected prefix
MaxSuffix == 1
\* MAX_EXPR_LEN is 1024 in the source; the model scales it down so that lines
\* shorter than, equal to and longer than the buffer are all enumerated.
MAX_EXPR_LEN == 2

BUFFER_SIZE == MAX_EXPR_LEN + 2

STATE_EXPECT_OPERAND == "STATE_EXPECT_OPERAND"
STATE_EXPECT_OPERATOR == "STATE_EXPECT_OPERATOR"

\* the characters the inputs are built from: representatives of every class
\* the scanner distinguishes
Alphabet == {"1", "a", "(", ")", "+", "-", "*", " ", "A"}
NEWLINE == "\n"

(***************************************************************************)
(* <ctype.h> and <string.h> as the scanner uses them ("C" locale).         *)
(***************************************************************************)
\* a whitespace test that knows the blank only
IsBlank(c) == c = " "

\* the whitespace of the "C" locale that a TLA+ string can spell (the
\* vertical tab cannot)
isspace(c) == c \in {" ", "\t", "\n", "\r", "\f"}

isdigit(c) == c \in {"0", "1", "2", "3", "4", "5", "6", "7", "8", "9"}

\* a letter test that takes the capital letters too
IsLetter(c) == c \in {"a", "b", "c", "d", "e", "f", "g", "h", "i", "j", "k", "l", "m",
                      "n", "o", "p", "q", "r", "s", "t", "u", "v", "w", "x", "y", "z",
                      "A", "B", "C", "D", "E", "F", "G", "H", "I", "J", "K", "L", "M",
                      "N", "O", "P", "Q", "R", "S", "T", "U", "V", "W", "X", "Y", "Z"}

islower(c) == c \in {"a", "b", "c", "d", "e", "f", "g", "h", "i", "j", "k", "l", "m",
                     "n", "o", "p", "q", "r", "s", "t", "u", "v", "w", "x", "y", "z"}

\* strchr("+-*/%", current_char) != NULL (current_char is never the zero byte)
IsBinaryOperator(c) == c \in {"+", "-", "*", "/", "%"}

\* a sign test that takes every operator for a sign
IsAnyOperator(c) == c \in {"+", "-", "*", "/", "%"}

\* a sign test that knows the minus only
IsUnaryMinus(c) == c = "-"

\* current_char == '+' || current_char == '-'
IsUnarySign(c) == c = "+" \/ c = "-"

\* a final check that forgets the balance
FinalCheckWithoutBalance(bal, st) == st = STATE_EXPECT_OPERATOR

\* a final check that forgets the state
FinalCheckWithoutState(bal, st) == bal = 0

\* the final check: parenthesis_balance == 0 && current_state == STATE_EXPECT_OPERATOR
FinalCheck(bal, st) == bal = 0 /\ st = STATE_EXPECT_OPERATOR

\* a scanner without the running check of the balance
NeverNegative(bal) == FALSE

\* the check that ends every iteration that processed a character
NegativeBalance(bal) == bal < 0

\* an inner loop that never runs: every digit is a number of its own
NoMoreDigits(e, idx) == FALSE

\* the condition of the inner while loop: i + 1 < len && isdigit(expr[i + 1])
MoreDigits(e, idx) == idx + 1 < Len(e) /\ isdigit(e[idx + 2])

(***************************************************************************)
(* isValidExpression as a function of its argument: the loop of lines      *)
(* 100-154 unrolled from index idx with the state st and the balance bal,  *)
(* then the final check of lines 163-167.                                  *)
(***************************************************************************)
RECURSIVE DigitRunEnd(_, _)
\* the inner while loop: the index of the last digit of the run that holds idx
DigitRunEnd(e, idx) == IF MoreDigits(e, idx) THEN DigitRunEnd(e, idx + 1) ELSE idx

RECURSIVE ScanFrom(_, _, _, _)
ScanFrom(e, idx, st, bal) ==
    IF idx >= Len(e) THEN FinalCheck(bal, st)
    ELSE LET c == e[idx + 1] IN
         IF isspace(c) THEN ScanFrom(e, idx + 1, st, bal)
         ELSE IF st = STATE_EXPECT_OPERAND
              THEN IF isdigit(c)
                   THEN IF NegativeBalance(bal) THEN FALSE
                        ELSE ScanFrom(e, DigitRunEnd(e, idx) + 1, STATE_EXPECT_OPERATOR, bal)
                   ELSE IF islower(c)
                   THEN IF NegativeBalance(bal) THEN FALSE
                        ELSE ScanFrom(e, idx + 1, STATE_EXPECT_OPERATOR, bal)
                   ELSE IF c = "("
                   THEN IF NegativeBalance(bal + 1) THEN FALSE
                        ELSE ScanFrom(e, idx + 1, STATE_EXPECT_OPERAND, bal + 1)
                   ELSE IF IsUnarySign(c)
                   THEN IF NegativeBalance(bal) THEN FALSE
                        ELSE ScanFrom(e, idx + 1, STATE_EXPECT_OPERAND, bal)
                   ELSE FALSE
              ELSE IF IsBinaryOperator(c)
                   THEN IF NegativeBalance(bal) THEN FALSE
                        ELSE ScanFrom(e, idx + 1, STATE_EXPECT_OPERAND, bal)
                   ELSE IF c = ")"
                   THEN IF NegativeBalance(bal - 1) THEN FALSE
                        ELSE ScanFrom(e, idx + 1, STATE_EXPECT_OPERATOR, bal - 1)
                   ELSE FALSE

isValidExpression(e) == ScanFrom(e, 0, STATE_EXPECT_OPERAND, 0)

(***************************************************************************)
(* isValidExpression step by step: one action per branch of the loop body. *)
(***************************************************************************)
\* the call: lines 89-95
EnterScanner(e) ==
    /\ expr' = e
    /\ len' = Len(e)
    /\ i' = 0
    /\ current_state' = STATE_EXPECT_OPERAND
    /\ parenthesis_balance' = 0
    /\ pc' = "loop"
    /\ verdict' = "none"
    /\ examined' = <<>>

\* the scanner is at the top of the loop with a character to read (lines 100-101)
AtChar == pc = "loop" /\ i < len

current_char == expr[i + 1]

\* lines 151-153 and the ++i of line 100, after a character was processed
EndIteration(bal) ==
    IF NegativeBalance(bal)
    THEN /\ pc' = "done"
         /\ verdict' = FALSE
         /\ i' = i
    ELSE /\ pc' = "loop"
         /\ verdict' = verdict
         /\ i' = i + 1

\* a return FALSE from inside the loop body (lines 127 and 142)
ReturnFalse ==
    /\ pc' = "done"
    /\ verdict' = FALSE
    /\ UNCHANGED <<i, current_state, parenthesis_balance>>

\* lines 103-106: whitespace, continue
SkipSpace ==
    /\ AtChar
    /\ isspace(current_char)
    /\ i' = i + 1
    /\ examined' = Append(examined, i)
    /\ UNCHANGED <<expr, len, current_state, parenthesis_balance, pc, verdict>>
    /\ UNCHANGED <<main_vars, other_programs>>

\* lines 108-110: a digit in STATE_EXPECT_OPERAND starts a number
OperandDigit ==
    /\ AtChar
    /\ ~isspace(current_char)
    /\ current_state = STATE_EXPECT_OPERAND
    /\ isdigit(current_char)
    /\ pc' = "digits"
    /\ examined' = Append(examined, i)
    /\ UNCHANGED <<expr, len, i, current_state, parenthesis_balance, verdict>>
    /\ UNCHANGED <<main_vars, other_programs>>

\* lines 111-113: one turn of the inner while loop
DigitLoop ==
    /\ pc = "digits"
    /\ MoreDigits(expr, i)
    /\ i' = i + 1
    /\ UNCHANGED <<expr, len, current_state, parenthesis_balance, pc, verdict, examined>>
    /\ UNCHANGED <<main_vars, other_programs>>

\* an inner loop that stops one character too late
DigitLoopExitOneTooFar ==
    /\ pc = "digits"
    /\ ~MoreDigits(expr, i)
    /\ current_state' = STATE_EXPECT_OPERATOR
    /\ pc' = "loop"
    /\ i' = i + 2
    /\ UNCHANGED <<expr, len, parenthesis_balance, verdict, examined>>
    /\ UNCHANGED <<main_vars, other_programs>>

\* line 114 once the inner loop has ended, then lines 151-153
DigitLoopExit ==
    /\ pc = "digits"
    /\ ~MoreDigits(expr, i)
    /\ current_state' = STATE_EXPECT_OPERATOR
    /\ EndIteration(parenthesis_balance)
    /\ UNCHANGED <<expr, len, parenthesis_balance, examined>>
    /\ UNCHANGED <<main_vars, other_programs>>

\* lines 115-117: a variable
OperandLower ==
    /\ AtChar
    /\ ~isspace(current_char)
    /\ current_state = STATE_EXPECT_OPERAND
    /\ ~isdigit(current_char)
    /\ islower(current_char)
    /\ current_state' = STATE_EXPECT_OPERATOR
    /\ EndIteration(parenthesis_balance)
    /\ examined' = Append(examined, i)
    /\ UNCHANGED <<expr, len, parenthesis_balance>>
    /\ UNCHANGED <<main_vars, other_programs>>

\* lines 118-121: an opening parenthesis
OperandOpen ==
    /\ AtChar
    /\ ~isspace(current_char)
    /\ current_state = STATE_EXPECT_OPERAND
    /\ ~isdigit(current_char)
    /\ ~islower(current_char)
    /\ current_char = "("
    /\ parenthesis_balance' = parenthesis_balance + 1
    /\ current_state' = STATE_EXPECT_OPERAND
    /\ EndIteration(parenthesis_balance + 1)
    /\ examined' = Append(examined, i)
    /\ UNCHANGED <<expr, len>>
    /\ UNCHANGED <<main_vars, other_programs>>

\* lines 122-124: a unary plus or minus
OperandSign ==
    /\ AtChar
    /\ ~isspace(current_char)
    /\ current_state = STATE_EXPECT_OPERAND
    /\ ~isdigit(current_char)
    /\ ~islower(current_char)
    /\ current_char # "("
    /\ IsUnarySign(current_char)
    /\ current_state' = STATE_EXPECT_OPERAND
    /\ EndIteration(parenthesis_balance)
    /\ examined' = Append(examined, i)
    /\ UNCHANGED <<expr, len, parenthesis_balance>>
    /\ UNCHANGED <<main_vars, other_programs>>

\* a scanner that passes over a character it cannot place
OperandRejectSkips ==
    /\ AtChar
    /\ ~isspace(current_char)
    /\ current_state = STATE_EXPECT_OPERAND
    /\ ~isdigit(current_char)
    /\ ~islower(current_char)
    /\ current_char # "("
    /\ ~IsUnarySign(current_char)
    /\ i' = i + 1
    /\ examined' = Append(examined, i)
    /\ UNCHANGED <<expr, len, current_state, parenthesis_balance, pc, verdict>>
    /\ UNCHANGED <<main_vars, other_programs>>

\* lines 125-128: anything else where an operand is expected
OperandReject ==
    /\ AtChar
    /\ ~isspace(current_char)
    /\ current_state = STATE_EXPECT_OPERAND
    /\ ~isdigit(current_char)
    /\ ~islower(current_char)
    /\ current_char # "("
    /\ ~IsUnarySign(current_char)
    /\ ReturnFalse
    /\ examined' = Append(examined, i)
    /\ UNCHANGED <<expr, len>>
    /\ UNCHANGED <<main_vars, other_programs>>

\* a binary operator after which the state is left as it was
OperatorBinaryKeepsState ==
    /\ AtChar
    /\ ~isspace(current_char)
    /\ current_state # STATE_EXPECT_OPERAND
    /\ IsBinaryOperator(current_char)
    /\ EndIteration(parenthesis_balance)
    /\ examined' = Append(examined, i)
    /\ UNCHANGED <<expr, len, current_state, parenthesis_balance>>
    /\ UNCHANGED <<main_vars, other_programs>>

\* lines 129-132: a binary operator
OperatorBinary ==
    /\ AtChar
    /\ ~isspace(current_char)
    /\ current_state # STATE_EXPECT_OPERAND
    /\ IsBinaryOperator(current_char)
    /\ current_state' = STATE_EXPECT_OPERAND
    /\ EndIteration(parenthesis_balance)
    /\ examined' = Append(examined, i)
    /\ UNCHANGED <<expr, len, parenthesis_balance>>
    /\ UNCHANGED <<main_vars, other_programs>>

\* a closing parenthesis after which an operand is expected
OperatorCloseExpectsOperand ==
    /\ AtChar
    /\ ~isspace(current_char)
    /\ current_state # STATE_EXPECT_OPERAND
    /\ ~IsBinaryOperator(current_char)
    /\ current_char = ")"
    /\ parenthesis_balance' = parenthesis_balance - 1
    /\ current_state' = STATE_EXPECT_OPERAND
    /\ EndIteration(parenthesis_balance - 1)
    /\ examined' = Append(examined, i)
    /\ UNCHANGED <<expr, len>>
    /\ UNCHANGED <<main_vars, other_programs>>

\* lines 133-136: a closing parenthesis, then the balance check of lines 151-153
OperatorClose ==
    /\ AtChar
    /\ ~isspace(current_char)
    /\ current_state # STATE_EXPECT_OPERAND
    /\ ~IsBinaryOperator(current_char)
    /\ current_char = ")"
    /\ parenthesis_balance' = parenthesis_balance - 1
    /\ current_state' = STATE_EXPECT_OPERATOR
    /\ EndIteration(parenthesis_balance - 1)
    /\ examined' = Append(examined, i)
    /\ UNCHANGED <<expr, len>>
    /\ UNCHANGED <<main_vars, other_programs>>

\* a scanner that lets a letter follow an operand, as in an identifier
OperatorRejectButLetters ==
    /\ AtChar
    /\ ~isspace(current_char)
    /\ current_state # STATE_EXPECT_OPERAND
    /\ ~IsBinaryOperator(current_char)
    /\ current_char # ")"
    /\ IF islower(current_char)
       THEN EndIteration(parenthesis_balance) /\ UNCHANGED <<current_state, parenthesis_balance>>
       ELSE ReturnFalse
    /\ examined' = Append(examined, i)
    /\ UNCHANGED <<expr, len>>
    /\ UNCHANGED <<main_vars, other_programs>>

\* lines 137-143: two operands in a row
OperatorReject ==
    /\ AtChar
    /\ ~isspace(current_char)
    /\ current_state # STATE_EXPECT_OPERAND
    /\ ~IsBinaryOperator(current_char)
    /\ current_char # ")"
    /\ ReturnFalse
    /\ examined' = Append(examined, i)
    /\ UNCHANGED <<expr, len>>
    /\ UNCHANGED <<main_vars, other_programs>>

\* lines 163-167: the loop has ended, the final check
Finish ==
    /\ pc = "loop"
    /\ ~(i < len)
    /\ pc' = "done"
    /\ verdict' = FinalCheck(parenthesis_balance, current_state)
    /\ UNCHANGED <<expr, len, i, current_state, parenthesis_balance, examined>>
    /\ UNCHANGED <<main_vars, other_programs>>

ScannerStep ==
    \/ SkipSpace
    \/ OperandDigit
    \/ DigitLoop
    \/ DigitLoopExit
    \/ OperandLower
    \/ OperandOpen
    \/ OperandSign
    \/ OperandReject
    \/ OperatorBinary
    \/ OperatorClose
    \/ OperatorReject
    \/ Finish

\* the journal analyser before it is started
JournalIdle ==
    /\ input_journal = [exists |-> FALSE, n |-> 0, records |-> <<>>]
    /\ journal_n = 0
    /\ events = <<>>
    /\ journal_i = 0
    /\ current_people = 0
    /\ max_people = 0
    /\ current_max_period_start_time = 0
    /\ max_period_duration = -1
    /\ result_start_time = 0
    /\ result_end_time = 0
    /\ journal_pc = "none"
    /\ journal_output = <<>>
    /\ journal_status = -1

\* the programs other than the expression validator are not running
\* the phrase search before it is started
SearchIdle ==
    /\ input_search = [exists |-> FALSE, content |-> <<>>]
    /\ phrase = <<>>
    /\ text = <<>>
    /\ match_flags = <<>>
    /\ search_i = 0
    /\ search_pc = "none"
    /\ search_output = <<>>
    /\ search_status = -1

\* matchPhrase before it is called
MatcherIdle ==
    /\ text_ptr = <<>>
    /\ phrase_ptr = <<>>
    /\ match_t = 0
    /\ match_p = 0
    /\ match_pc = "idle"
    /\ match_result = "none"

OtherProgramsIdle == JournalIdle /\ SearchIdle /\ MatcherIdle

(***************************************************************************)
(* The scanner on its own: every string over Alphabet of at most MaxLen    *)
(* characters is an argument.                                              *)
(***************************************************************************)
Strings(n) == UNION {[1..k -> Alphabet] : k \in 0..n}

Init ==
    /\ expr \in Strings(MaxLen)
    /\ len = Len(expr)
    /\ i = 0
    /\ current_state = STATE_EXPECT_OPERAND
    /\ parenthesis_balance = 0
    /\ pc = "loop"
    /\ verdict = "none"
    /\ examined = <<>>
    /\ stdin = <<>>
    /\ stdin_pos = 0
    /\ read_error = FALSE
    /\ buffer = <<>>
    /\ main_pc = "none"
    /\ output = <<>>
    /\ exit_status = -1
    /\ OtherProgramsIdle

Next == ScannerStep

Spec == Init /\ [][Next]_vars

\* the step-by-step scanner returns what the function isValidExpression gives
ScannerAgrees == pc = "done" => verdict = isValidExpression(expr)

(***************************************************************************)
(* Properties of isValidExpression, checked under Spec.                    *)
(***************************************************************************)
\* the number of occurrences of the character ch among the first k of s
CountIn(s, k, ch) == Cardinality({j \in 1..k : s[j] = ch})

Returned == pc = "done"
Accepted == pc = "done" /\ verdict = TRUE

\* C1: in every accepted string the number of '(' equals the number of ')'
\* and every prefix holds at least as many '(' as ')'.
C1_AcceptedIsBalanced ==
    Accepted =>
        /\ CountIn(expr, Len(expr), "(") = CountIn(expr, Len(expr), ")")
        /\ \A k \in 0..Len(expr) : CountIn(expr, k, "(") >= CountIn(expr, k, ")")

\* an accepted string of MaxLen characters that holds parentheses
C1_Witness == Accepted /\ Len(expr) = MaxLen /\ CountIn(expr, Len(expr), "(") >= 1

AllWhitespace(s) == \A j \in 1..Len(s) : isspace(s[j])

\* C2: on an input of whitespace only (the empty string too) the state stays
\* STATE_EXPECT_OPERAND, the scan runs to the end of the input and the final
\* check gives FALSE.
C2_WhitespaceOnlyIsRejected ==
    AllWhitespace(expr) =>
        /\ current_state = STATE_EXPECT_OPERAND
        /\ parenthesis_balance = 0
        /\ Returned => (verdict = FALSE /\ i = len)

\* the scanner has returned from an input of several whitespace characters
C2_Witness == Returned /\ AllWhitespace(expr) /\ Len(expr) >= 2

\* position p of s ends an operand: a letter, a ')' or the last digit of a run
EndsOperand(s, p) ==
    \/ islower(s[p])
    \/ s[p] = ")"
    \/ isdigit(s[p]) /\ (p = Len(s) \/ ~isdigit(s[p + 1]))

\* position q of s starts an operand: a letter, a '(' or the first digit of a run
StartsOperand(s, q) ==
    \/ islower(s[q])
    \/ s[q] = "("
    \/ isdigit(s[q]) /\ (q = 1 \/ ~isdigit(s[q - 1]))

\* two operands of s with nothing but whitespace between them
AdjacentOperands(s) ==
    \E p \in 1..Len(s) : \E q \in (p + 1)..Len(s) :
        /\ EndsOperand(s, p)
        /\ StartsOperand(s, q)
        /\ \A j \in (p + 1)..(q - 1) : isspace(s[j])

\* C3: a string that holds two adjacent operands with no operator between
\* them is rejected, whatever stands before and after the pair.
C3_AdjacentOperandsRejected ==
    (Returned /\ AdjacentOperands(expr)) => verdict = FALSE

\* the scanner met the second operand of a pair while expecting an operator,
\* past the start of the string and before its end
C3_Witness ==
    /\ Returned
    /\ AdjacentOperands(expr)
    /\ current_state = STATE_EXPECT_OPERATOR
    /\ i > 1
    /\ i + 1 < len
    /\ StartsOperand(expr, i + 1)

\* the 1-based position of the last character of s that is not whitespace, or 0
LastNonSpace(s) ==
    IF AllWhitespace(s) THEN 0
    ELSE CHOOSE k \in 1..Len(s) :
            ~isspace(s[k]) /\ \A j \in (k + 1)..Len(s) : isspace(s[j])

EndsWithOperator(s) ==
    LastNonSpace(s) # 0 /\ s[LastNonSpace(s)] \in {"+", "-", "*", "/", "%"}

\* C5: a string whose last non-whitespace character is one of + - * / % is
\* rejected; when the scan reaches the end of such a string it ends in
\* STATE_EXPECT_OPERAND.
C5_TrailingOperatorRejected ==
    (Returned /\ EndsWithOperator(expr)) =>
        /\ verdict = FALSE
        /\ i = len => current_state = STATE_EXPECT_OPERAND

\* a string ending in an operator was scanned to its end with the balance 0:
\* only the state rejects it
C5_Witness ==
    /\ Returned
    /\ EndsWithOperator(expr)
    /\ i = len
    /\ len >= 3
    /\ islower(expr[1])
    /\ parenthesis_balance = 0


\* s with t inserted after its first k characters
InsertAt(s, k, t) == SubSeq(s, 1, k) \o t \o SubSeq(s, k + 1, Len(s))

\* the runs of one to MaxRun signs
SignRuns == UNION {[1..n -> {"+", "-"}] : n \in 1..MaxRun}

\* C4: where the scanner stands at a character boundary in
\* STATE_EXPECT_OPERAND, inserting any run of '+' and '-' there leaves the
\* verdict of the string as it was; "a++b", "a+-b", "--a", "+-+a" and
\* "+ -+- a" are accepted.
C4_UnarySignsKeepVerdict ==
    /\ (pc = "loop" /\ current_state = STATE_EXPECT_OPERAND) =>
           LET whole == isValidExpression(expr) IN
           \A t \in SignRuns : isValidExpression(InsertAt(expr, i, t)) = whole
    /\ (Returned /\ expr = <<"a", "+", "+", "b">>) => verdict = TRUE
    /\ (Returned /\ expr = <<"a", "+", "-", "b">>) => verdict = TRUE
    /\ (Returned /\ expr = <<"-", "-", "a">>) => verdict = TRUE
    /\ (Returned /\ expr = <<"+", "-", "+", "a">>) =>
           (verdict = TRUE /\ isValidExpression(<<"+", " ", "-", "+", "-", " ", "a">>))

\* the scanner stands right after a binary operator of an accepted string
C4_Witness ==
    /\ pc = "loop"
    /\ current_state = STATE_EXPECT_OPERAND
    /\ i > 0
    /\ expr[i] = "*"
    /\ isValidExpression(expr)

\* the maximal runs of digits of s, as pairs <<first, last>> of positions
DigitRuns(s) ==
    {r \in (1..Len(s)) \X (1..Len(s)) :
        /\ r[1] <= r[2]
        /\ \A j \in r[1]..r[2] : isdigit(s[j])
        /\ (r[1] = 1 \/ ~isdigit(s[r[1] - 1]))
        /\ (r[2] = Len(s) \/ ~isdigit(s[r[2] + 1]))}

\* s with the run r replaced by n copies of the digit d
ReplaceRun(s, r, n, d) ==
    SubSeq(s, 1, r[1] - 1) \o [j \in 1..n |-> d] \o SubSeq(s, r[2] + 1, Len(s))

\* C6 on the verdict: a run of digits replaced by a run of another length
C6_RunLengthKeepsVerdict ==
    Returned =>
        \A r \in DigitRuns(expr) : \A n \in 1..(MaxRun + 1) : \A d \in {"0", "9"} :
            isValidExpression(ReplaceRun(expr, r, n, d)) = verdict

\* C6 on the scan: inside the inner loop the state is still
\* STATE_EXPECT_OPERAND, and of a run of digits only the first is ever taken
\* as current_char
C6_RunIsOneToken ==
    /\ pc = "digits" => (current_state = STATE_EXPECT_OPERAND /\ isdigit(expr[i + 1]))
    /\ \A k \in 1..Len(examined) :
           (examined[k] > 0 /\ isdigit(expr[examined[k] + 1]))
               => ~isdigit(expr[examined[k]])

\* C6 on the scan: the state changes to STATE_EXPECT_OPERATOR over a digit
\* only when the inner loop ends, and it ends at the last digit of the run
C6_OneTransitionPerRun ==
    (current_state = STATE_EXPECT_OPERAND /\ current_state' = STATE_EXPECT_OPERATOR
        /\ i < len /\ isdigit(expr[i + 1]))
    => (pc = "digits" /\ (i + 1 = len \/ ~isdigit(expr[i + 2])) /\ i' = i + 1)

\* C6: a maximal run of digits is one operand whatever its length: the
\* verdict does not change when a run is replaced by a run of another length,
\* and the whole run makes one transition from STATE_EXPECT_OPERAND to
\* STATE_EXPECT_OPERATOR.
C6_DigitRunIsOneOperand ==
    /\ [](C6_RunLengthKeepsVerdict /\ C6_RunIsOneToken)
    /\ [][C6_OneTransitionPerRun]_vars

\* an accepted string with a run of two digits and a run of one
C6_Witness ==
    /\ Accepted
    /\ \E r \in DigitRuns(expr) : r[2] = r[1] + 1
    /\ \E r \in DigitRuns(expr) : r[2] = r[1]

(***************************************************************************)
(* The grammar  E ::= T (op T)*,  T ::= sign* P,                           *)
(* P ::= number | lowercase-letter | '(' E ')'  and its recognizer.        *)
(***************************************************************************)
RECURSIVE Tokens(_, _)
\* the tokens of s from position p on: whitespace separates tokens, a
\* maximal run of digits is the token "number", a lowercase letter is
\* "letter", the other characters stand for themselves
Tokens(s, p) ==
    IF p > Len(s) THEN <<>>
    ELSE IF isspace(s[p]) THEN Tokens(s, p + 1)
    ELSE IF isdigit(s[p])
         THEN IF p < Len(s) /\ isdigit(s[p + 1])
              THEN Tokens(s, p + 1)
              ELSE <<"number">> \o Tokens(s, p + 1)
    ELSE IF islower(s[p]) THEN <<"letter">> \o Tokens(s, p + 1)
    ELSE <<s[p]>> \o Tokens(s, p + 1)

GrammarOp == {"+", "-", "*", "/", "%"}
GrammarSign == {"+", "-"}

RECURSIVE ParseE(_, _)
RECURSIVE ParseT(_, _)
RECURSIVE ParseP(_, _)
RECURSIVE ParseMore(_, _)
\* each gives the position after the longest E, T, P or (op T)* that starts
\* at position p of the tokens t, or 0 when there is none
ParseP(t, p) ==
    IF p > Len(t) THEN 0
    ELSE IF t[p] \in {"number", "letter"} THEN p + 1
    ELSE IF t[p] = "("
         THEN LET q == ParseE(t, p + 1) IN
              IF q # 0 /\ q <= Len(t) /\ t[q] = ")" THEN q + 1 ELSE 0
    ELSE 0

ParseT(t, p) ==
    IF p <= Len(t) /\ t[p] \in GrammarSign THEN ParseT(t, p + 1) ELSE ParseP(t, p)

ParseMore(t, p) ==
    IF p <= Len(t) /\ t[p] \in GrammarOp
    THEN LET q == ParseT(t, p + 1) IN IF q = 0 THEN 0 ELSE ParseMore(t, q)
    ELSE p

ParseE(t, p) ==
    LET q == ParseT(t, p) IN IF q = 0 THEN 0 ELSE ParseMore(t, q)

\* the string s is derived from E
Derives(s) == LET t == Tokens(s, 1) IN ParseE(t, 1) = Len(t) + 1

\* C11: isValidExpression returns TRUE exactly for the strings the grammar
\* derives: the scanner and the recursive recognizer agree on every input.
C11_ScannerIsTheGrammar ==
    Returned => (verdict = TRUE <=> Derives(expr))

\* an accepted string with a parenthesis and a sign in it
C11_Witness ==
    /\ Accepted
    /\ Derives(expr)
    /\ CountIn(expr, Len(expr), "(") = 1
    /\ CountIn(expr, Len(expr), "-") = 1

\* the scanner returned from inside the loop, at the character of index i
ReturnedInLoop == Returned /\ i < len

\* C12 on the verdict: when the scanner returned FALSE at the character of
\* index i, every string that starts with the same i + 1 characters is
\* rejected
C12_PrefixDecides ==
    ReturnedInLoop =>
        /\ verdict = FALSE
        /\ \A t \in Strings(MaxSuffix) :
               ~isValidExpression(SubSeq(expr, 1, i + 1) \o t)

\* the character at the top of the loop cannot stand in the current state
InvalidToken ==
    /\ AtChar
    /\ ~isspace(current_char)
    /\ IF current_state = STATE_EXPECT_OPERAND
       THEN current_char \notin {"(", "+", "-"}
            /\ ~isdigit(current_char) /\ ~islower(current_char)
       ELSE current_char \notin {"+", "-", "*", "/", "%", ")"}

\* C12 on the steps: an invalid token makes the scanner return FALSE at that
\* character
C12_ReturnsAtInvalidToken ==
    InvalidToken => (pc' = "done" /\ verdict' = FALSE /\ i' = i)

\* C12: rejection during the scan is immediate and depends on the prefix
\* read so far only: a string rejected at position k shares its fate with
\* every string that has the same first k + 1 characters.
C12_FailFast ==
    /\ []C12_PrefixDecides
    /\ [][C12_ReturnsAtInvalidToken]_vars

\* the scanner returned in the middle of a string, after an operand
C12_Witness ==
    /\ ReturnedInLoop
    /\ i >= 2
    /\ i + 1 < len
    /\ islower(expr[1])

WhitespaceChars == {" ", "\t", "\n", "\r", "\f"}

RECURSIVE WithoutWhitespace(_)
\* s with its whitespace characters removed
WithoutWhitespace(s) ==
    IF s = <<>> THEN <<>>
    ELSE IF s[1] \in WhitespaceChars THEN WithoutWhitespace(Tail(s))
    ELSE <<s[1]>> \o WithoutWhitespace(Tail(s))

\* the first k characters of s end in a digit and the rest starts with one
BetweenDigits(s, k) ==
    0 < k /\ k < Len(s) /\ isdigit(s[k]) /\ isdigit(s[k + 1])

\* C13 on the verdict: a whitespace character inserted after the first k
\* characters leaves the verdict as it was, except between two adjacent
\* digits, where the string it gives is rejected; an accepted string with
\* its whitespace removed is accepted
C13_WhitespaceKeepsVerdict ==
    Returned =>
        /\ \A k \in 0..len : \A w \in WhitespaceChars :
               LET spaced == isValidExpression(InsertAt(expr, k, <<w>>)) IN
               IF BetweenDigits(expr, k) THEN ~spaced ELSE spaced = verdict
        /\ verdict = TRUE => isValidExpression(WithoutWhitespace(expr))

\* C13 on the steps: a whitespace character moves the index and nothing else
C13_WhitespaceIsSkipped ==
    (AtChar /\ current_char \in WhitespaceChars) =>
        /\ current_state' = current_state
        /\ parenthesis_balance' = parenthesis_balance
        /\ pc' = "loop"
        /\ i' = i + 1

\* C13: a whitespace character leaves state and balance unchanged; a
\* whitespace character inserted anywhere but between two adjacent digits
\* leaves the verdict unchanged, between two digits it makes the string
\* rejected; removing all whitespace from an accepted string gives an
\* accepted string.
C13_WhitespaceIsTransparent ==
    /\ []C13_WhitespaceKeepsVerdict
    /\ [][C13_WhitespaceIsSkipped]_vars

\* an accepted string that holds whitespace and two adjacent digits
C13_Witness ==
    /\ Accepted
    /\ \E k \in 1..len : isspace(expr[k])
    /\ \E k \in 1..len : BetweenDigits(expr, k)

\* the position of the last non-whitespace character of s before q, or 0
PrevNonSpace(s, q) ==
    IF \A j \in 1..(q - 1) : isspace(s[j]) THEN 0
    ELSE CHOOSE k \in 1..(q - 1) :
            ~isspace(s[k]) /\ \A j \in (k + 1)..(q - 1) : isspace(s[j])

\* position q of s follows, over whitespace, a '(' or an operator
AfterOpenOrOperator(s, q) ==
    PrevNonSpace(s, q) # 0 /\ s[PrevNonSpace(s, q)] \in {"(", "+", "-", "*", "/", "%"}

\* C14 on the verdict: an accepted string holds no ')' right after a '(' or
\* an operator, and no '*', '/' or '%' at its start, right after a '(' or
\* right after an operator; "()" and "(a+)" are rejected
C14_NoOperatorWhereOperandIsDue ==
    /\ Accepted =>
           \A q \in 1..len :
               /\ expr[q] = ")" => ~AfterOpenOrOperator(expr, q)
               /\ expr[q] \in {"*", "/", "%"} =>
                      (PrevNonSpace(expr, q) # 0 /\ ~AfterOpenOrOperator(expr, q))
    /\ (Returned /\ expr = <<"(", ")">>) => verdict = FALSE
    /\ (Returned /\ expr = <<"(", "a", "+", ")">>) => verdict = FALSE

\* C14 on the steps: in STATE_EXPECT_OPERAND a ')', '*', '/' or '%' makes
\* the scanner return FALSE at once and a '(' adds one to the balance and
\* keeps the state; in STATE_EXPECT_OPERATOR a ')' takes one from the
\* balance and keeps the state
C14_ParenthesisSteps ==
    /\ (AtChar /\ current_state = STATE_EXPECT_OPERAND
            /\ current_char \in {")", "*", "/", "%"})
       => (pc' = "done" /\ verdict' = FALSE /\ i' = i)
    /\ (AtChar /\ current_state = STATE_EXPECT_OPERAND /\ current_char = "(")
       => /\ parenthesis_balance' = parenthesis_balance + 1
          /\ current_state' = STATE_EXPECT_OPERAND
          /\ pc' = "loop"
    /\ (AtChar /\ current_state = STATE_EXPECT_OPERATOR /\ current_char = ")")
       => /\ parenthesis_balance' = parenthesis_balance - 1
          /\ current_state' = STATE_EXPECT_OPERATOR

\* C14: where an operand is expected a ')' or one of '*', '/', '%' is
\* rejected at once, so no accepted string holds a ')' after a '(' or an
\* operator, nor a '*', '/' or '%' at the start, after a '(' or after an
\* operator; '(' increments the balance and keeps STATE_EXPECT_OPERAND, ')'
\* decrements it and keeps STATE_EXPECT_OPERATOR.
C14_OperandExpected ==
    /\ []C14_NoOperatorWhereOperandIsDue
    /\ [][C14_ParenthesisSteps]_vars

\* the scanner returned at a ')' that follows an operator inside parentheses
C14_Witness ==
    /\ ReturnedInLoop
    /\ expr[i + 1] = ")"
    /\ current_state = STATE_EXPECT_OPERAND
    /\ parenthesis_balance = 1
    /\ i >= 3

\* the characters of the expression alphabet
ExpressionChars ==
    {"0", "1", "2", "3", "4", "5", "6", "7", "8", "9",
     "a", "b", "c", "d", "e", "f", "g", "h", "i", "j", "k", "l", "m",
     "n", "o", "p", "q", "r", "s", "t", "u", "v", "w", "x", "y", "z",
     "(", ")", "+", "-", "*", "/", "%"} \cup WhitespaceChars

\* some characters outside the expression alphabet
ForeignChars == {"A", "Z", ".", "^", "=", "_", ","}

\* C15 on the verdict: a string that holds a character outside the
\* expression alphabet is rejected, and so is every string with such a
\* character inserted anywhere
C15_ForeignCharRejects ==
    Returned =>
        /\ (\E k \in 1..len : expr[k] \notin ExpressionChars) => verdict = FALSE
        /\ \A k \in 0..len : \A c \in ForeignChars :
               ~isValidExpression(InsertAt(expr, k, <<c>>))

\* C15 on the steps: in either state a character outside the expression
\* alphabet makes the scanner return FALSE at that character
C15_ReturnsAtForeignChar ==
    (AtChar /\ current_char \notin ExpressionChars) =>
        (pc' = "done" /\ verdict' = FALSE /\ i' = i)

\* C15: every string that holds a character outside the alphabet of digits,
\* lowercase letters, parentheses, the five operators and whitespace is
\* rejected, in whichever state the character is met and wherever it stands.
C15_ForeignCharacters ==
    /\ []C15_ForeignCharRejects
    /\ [][C15_ReturnsAtForeignChar]_vars

\* the scanner met a capital letter where it expected an operator, past
\* the start of the string and before its end
C15_Witness ==
    /\ ReturnedInLoop
    /\ expr[i + 1] = "A"
    /\ current_state = STATE_EXPECT_OPERATOR
    /\ i >= 1
    /\ i + 1 < len

(***************************************************************************)
(* The scan as a process: termination and the running balance.             *)
(***************************************************************************)
\* the loop of isValidExpression always takes its next step
FairSpec == Spec /\ WF_vars(Next)

\* C9 on the state: the index stays within 0..len, inside the inner loop it
\* is below len, and the indices taken as current_char are below len and
\* strictly increasing
C9_IndexInRange ==
    /\ 0 <= i /\ i <= len
    /\ pc = "digits" => i < len
    /\ \A k \in 1..Len(examined) : 0 <= examined[k] /\ examined[k] < len
    /\ \A k \in 1..(Len(examined) - 1) : examined[k] < examined[k + 1]
    /\ Returned => verdict \in BOOLEAN

\* C9 on the steps: the index never decreases, a character is taken as
\* current_char at the index i only, and the argument is not changed
C9_NoBacktracking ==
    /\ i' >= i
    /\ examined' # examined => examined' = Append(examined, i)
    /\ expr' = expr

\* C9: isValidExpression is total: the scan of every input ends with a
\* verdict after one pass from left to right; the index never decreases,
\* never exceeds the length of the input (inside the inner loop too), and no
\* character is taken as current character twice.
C9_ScanTerminates ==
    /\ []C9_IndexInRange
    /\ [][C9_NoBacktracking]_vars
    /\ <>Returned

\* the scan has ended after the inner loop ran to the end of the input
C9_Witness ==
    /\ Returned
    /\ len >= 4
    /\ i = len
    /\ isdigit(expr[len])
    /\ isdigit(expr[len - 1])
    /\ Len(examined) = len - 1

\* some prefix of s holds more ')' than '('
DipsNegative(s) == \E k \in 1..Len(s) : CountIn(s, k, "(") < CountIn(s, k, ")")

\* the length of the shortest prefix of s that holds more ')' than '('
FirstDip(s) ==
    CHOOSE k \in 1..Len(s) :
        /\ CountIn(s, k, "(") < CountIn(s, k, ")")
        /\ \A j \in 1..(k - 1) : CountIn(s, j, "(") >= CountIn(s, j, ")")

\* C10 on the state: the balance is not negative while the loop runs; once
\* it is negative the scanner has returned FALSE at the ')' that made it so;
\* a string whose parentheses dip below zero is rejected inside the loop, at
\* the dip or before it, also when its parentheses are balanced in total
C10_BalanceCheckedInLoop ==
    /\ pc \in {"loop", "digits"} => parenthesis_balance >= 0
    /\ parenthesis_balance < 0 =>
           /\ Returned /\ verdict = FALSE
           /\ parenthesis_balance = -1
           /\ i < len /\ expr[i + 1] = ")"
           /\ examined[Len(examined)] = i
    /\ (Returned /\ DipsNegative(expr)) =>
           /\ verdict = FALSE
           /\ i < len
           /\ i + 1 <= FirstDip(expr)
    /\ (Returned /\ expr = <<"a", ")", "(", "a">>) =>
           (i = 1 /\ parenthesis_balance = -1 /\ examined = <<0, 1>>)

\* C10 on the steps: a ')' met in STATE_EXPECT_OPERATOR with the balance 0
\* makes the scanner return FALSE at that character
C10_ReturnsAtTheDip ==
    (AtChar /\ current_state = STATE_EXPECT_OPERATOR /\ current_char = ")"
        /\ parenthesis_balance = 0)
    => (pc' = "done" /\ verdict' = FALSE /\ i' = i /\ examined' = Append(examined, i))

\* C10: the balance is checked after every processed character: a ')' that
\* makes it negative ends the scan with FALSE at once, no later character is
\* read, and the balance is >= 0 at the start of every iteration.
C10_RunningBalanceCheck ==
    /\ []C10_BalanceCheckedInLoop
    /\ [][C10_ReturnsAtTheDip]_vars

\* the scanner returned at a ')' that made the balance negative, in a string
\* whose parentheses are balanced in total and that goes on after the ')'
C10_Witness ==
    /\ Returned
    /\ parenthesis_balance < 0
    /\ CountIn(expr, Len(expr), "(") = CountIn(expr, Len(expr), ")")
    /\ i + 1 < len

(***************************************************************************)
(* main: fgets, the removal of the newline, the call and the verdict.      *)
(***************************************************************************)
Min(a, b) == IF a < b THEN a ELSE b

\* strchr(s, '\n'): the 1-based position of the first newline of s, 0 for NULL
NewlinePos(s) ==
    IF \E k \in 1..Len(s) : s[k] = NEWLINE
    THEN CHOOSE k \in 1..Len(s) : s[k] = NEWLINE /\ \A j \in 1..(k - 1) : s[j] # NEWLINE
    ELSE 0

\* an fgets that keeps one character less than it has room for
FgetsCountOneShort(in, size) ==
    LET room == Min(Len(in), size - 2)
        nl == NewlinePos(SubSeq(in, 1, room))
    IN IF nl # 0 THEN nl ELSE room

\* fgets(buffer, size, stdin): how many characters it stores, reading from
\* `in`: at most size - 1, stopping after a newline or at the end of input
FgetsCount(in, size) ==
    LET room == Min(Len(in), size - 1)
        nl == NewlinePos(SubSeq(in, 1, room))
    IN IF nl # 0 THEN nl ELSE room

\* a failed read that is reported by the exit status 1
FgetsFailsWithStatusOne ==
    /\ main_pc = "fgets"
    /\ (read_error \/ stdin_pos >= Len(stdin))
    /\ output' = Append(output, "incorrect")
    /\ exit_status' = 1
    /\ main_pc' = "exited"
    /\ UNCHANGED <<stdin, stdin_pos, read_error, buffer>>
    /\ UNCHANGED <<scanner_vars, other_programs>>

\* lines 57-61: fgets returns NULL (read error, or end of input at once)
FgetsFails ==
    /\ main_pc = "fgets"
    /\ (read_error \/ stdin_pos >= Len(stdin))
    /\ output' = Append(output, "incorrect")
    /\ exit_status' = 0
    /\ main_pc' = "exited"
    /\ UNCHANGED <<stdin, stdin_pos, read_error, buffer>>
    /\ UNCHANGED <<scanner_vars, other_programs>>

\* line 57: fgets stores a line, or the part of it that fits
FgetsReads ==
    /\ main_pc = "fgets"
    /\ ~(read_error \/ stdin_pos >= Len(stdin))
    /\ LET rest == SubSeq(stdin, stdin_pos + 1, Len(stdin))
           n == FgetsCount(rest, BUFFER_SIZE)
       IN /\ buffer' = SubSeq(rest, 1, n)
          /\ stdin_pos' = stdin_pos + n
    /\ main_pc' = "strchr"
    /\ UNCHANGED <<stdin, read_error, output, exit_status>>
    /\ UNCHANGED <<scanner_vars, other_programs>>

\* lines 67-70: the newline, when the buffer holds one, ends the string
StripNewline ==
    /\ main_pc = "strchr"
    /\ buffer' = IF NewlinePos(buffer) # 0
                 THEN SubSeq(buffer, 1, NewlinePos(buffer) - 1)
                 ELSE buffer
    /\ main_pc' = "call"
    /\ UNCHANGED <<stdin, stdin_pos, read_error, output, exit_status>>
    /\ UNCHANGED <<scanner_vars, other_programs>>

\* line 75: the call isValidExpression(buffer)
CallValidator ==
    /\ main_pc = "call"
    /\ pc = "idle"
    /\ EnterScanner(buffer)
    /\ main_pc' = "wait"
    /\ UNCHANGED <<stdin, stdin_pos, read_error, buffer, output, exit_status>>
    /\ UNCHANGED other_programs

\* lines 75-81: the verdict is printed and main returns 0
PrintVerdict ==
    /\ main_pc = "wait"
    /\ pc = "done"
    /\ output' = Append(output, IF verdict = TRUE THEN "correct" ELSE "incorrect")
    /\ exit_status' = 0
    /\ main_pc' = "exited"
    /\ UNCHANGED <<stdin, stdin_pos, read_error, buffer>>
    /\ UNCHANGED <<scanner_vars, other_programs>>

StdinContents == UNION {[1..k -> Alphabet \cup {NEWLINE}] : k \in 0..MaxStdin}

MainInit ==
    /\ stdin \in StdinContents
    /\ stdin_pos = 0
    /\ read_error \in BOOLEAN
    /\ buffer = <<>>
    /\ main_pc = "fgets"
    /\ output = <<>>
    /\ exit_status = -1
    /\ expr = <<>>
    /\ len = 0
    /\ i = 0
    /\ current_state = STATE_EXPECT_OPERAND
    /\ parenthesis_balance = 0
    /\ pc = "idle"
    /\ verdict = "none"
    /\ examined = <<>>
    /\ OtherProgramsIdle

MainNext ==
    \/ FgetsFails
    \/ FgetsReads
    \/ StripNewline
    \/ CallValidator
    \/ ScannerStep
    \/ PrintVerdict

MainSpec == MainInit /\ [][MainNext]_vars

(***************************************************************************)
(* Properties of the program, checked under MainSpec and FairMainSpec.     *)
(***************************************************************************)
\* main always takes its next step
FairMainSpec == MainSpec /\ WF_vars(MainNext)

Exited == main_pc = "exited"

\* the first line of standard input, without its newline
FirstLine(in) ==
    IF NewlinePos(in) # 0 THEN SubSeq(in, 1, NewlinePos(in) - 1) ELSE in

\* fgets gave a line
LineRead == ~read_error /\ stdin # <<>>

\* C7 as stated: the verdict printed is the validator's verdict on the whole
\* first line, whatever its length.
C7_VerdictOfWholeLine ==
    (Exited /\ LineRead) =>
        (output = <<"correct">> <=> isValidExpression(FirstLine(stdin)))

\* C7 amended: the verdict printed is the validator's verdict on the whole
\* first line when the line holds at most BUFFER_SIZE - 1 characters, and on
\* its first BUFFER_SIZE - 1 characters when it is longer.
C7_VerdictOfLineThatFits ==
    (Exited /\ LineRead) =>
        LET line == FirstLine(stdin) IN
        /\ Len(output) = 1
        /\ Len(line) <= BUFFER_SIZE - 1 =>
               (output = <<"correct">> <=> isValidExpression(line))
        /\ Len(line) > BUFFER_SIZE - 1 =>
               (output = <<"correct">> <=>
                    isValidExpression(SubSeq(line, 1, BUFFER_SIZE - 1)))

\* a line of exactly BUFFER_SIZE - 1 characters, ended by a newline, was
\* judged correct
C7_Witness ==
    /\ Exited
    /\ LineRead
    /\ NewlinePos(stdin) = BUFFER_SIZE
    /\ output = <<"correct">>

\* C8 on the state: nothing is printed before main returns; it returns 0
\* with one line printed, "correct" or "incorrect"; when the read fails the
\* line is "incorrect" and isValidExpression is never entered
C8_OneVerdictLine ==
    /\ ~Exited => (output = <<>> /\ exit_status = -1)
    /\ Exited =>
           /\ Len(output) = 1
           /\ output[1] \in {"correct", "incorrect"}
           /\ exit_status = 0
    /\ ~LineRead =>
           /\ pc = "idle"
           /\ Exited => output = <<"incorrect">>

\* C8: every run prints exactly one verdict line, "correct" or "incorrect",
\* and exits with status 0; when the read fails or the input ends at once
\* the line is "incorrect" and the validator is not called.
C8_EveryRunPrintsOneVerdict ==
    /\ []C8_OneVerdictLine
    /\ <>Exited

\* the run of a program whose read failed although input was waiting
C8_Witness ==
    /\ Exited
    /\ read_error
    /\ stdin # <<>>
    /\ output = <<"incorrect">>

(***************************************************************************)
(* The journal analyser ("Журнал проходной.c"): main reads the records,    *)
(* makes two events of each, sorts the events and sweeps them once.        *)
(* events[k] of the source is events[k + 1] here.                          *)
(***************************************************************************)
\* the largest number of records the program takes (10000 in the source)
MAX_RECORDS == 3

EVENT_ENTER == 1
EVENT_LEAVE == -1

\* the hours and minutes that stand in the records of the model
Hours == {0, 1}
Minutes == {0, 59}

\* a line "h1:m1 h2:m2" of the journal, as fscanf reads it
RecordLines == {<<h1, m1, h2, m2>> : h1 \in Hours, m1 \in Minutes, h2 \in Hours, m2 \in Minutes}

\* lines 107 and 109: minutes since midnight
TimeInMinutes(h, m) == h * 60 + m

EnterEvent(r) == [time_in_minutes |-> TimeInMinutes(r[1], r[2]), type |-> EVENT_ENTER]
LeaveEvent(r) == [time_in_minutes |-> TimeInMinutes(r[3], r[4]), type |-> EVENT_LEAVE]

\* at equal times the leave event first
compareEventsLeaveFirst(eventA, eventB) ==
    LET time_diff == eventA.time_in_minutes - eventB.time_in_minutes
    IN IF time_diff # 0 THEN time_diff ELSE eventA.type - eventB.type

\* lines 184-195
compareEvents(eventA, eventB) ==
    LET time_diff == eventA.time_in_minutes - eventB.time_in_minutes
    IN IF time_diff # 0 THEN time_diff ELSE eventB.type - eventA.type

\* qsort (line 115): the events in an order in which compareEvents never
\* puts a later element before an earlier one; elements that compare equal
\* are equal, so the order is the only one
RECURSIVE InsertEvent(_, _)
InsertEvent(e, sorted) ==
    IF sorted = <<>> THEN <<e>>
    ELSE IF compareEvents(e, Head(sorted)) <= 0 THEN <<e>> \o sorted
    ELSE <<Head(sorted)>> \o InsertEvent(e, Tail(sorted))

RECURSIVE qsort(_)
qsort(evs) == IF evs = <<>> THEN <<>> ELSE InsertEvent(Head(evs), qsort(Tail(evs)))

\* "%d" and "%02d" of fprintf for a number that is not negative
DigitChars == <<"0", "1", "2", "3", "4", "5", "6", "7", "8", "9">>

RECURSIVE Decimal(_)
Decimal(v) == IF v < 10 THEN <<DigitChars[v + 1]>>
              ELSE Decimal(v \div 10) \o <<DigitChars[(v % 10) + 1]>>

TwoDigits(v) == IF v < 10 THEN <<"0">> \o Decimal(v) ELSE Decimal(v)

\* the hours and the minutes exchanged
printTimeMinutesFirst(minutes) == TwoDigits(minutes % 60) \o <<":">> \o TwoDigits(minutes \div 60)

\* lines 197-200
printTime(minutes) == TwoDigits(minutes \div 60) \o <<":">> \o TwoDigits(minutes % 60)

\* a period that is not shorter replaces the best one
NotShorterPeriod(current_duration, best_duration) == current_duration >= best_duration

\* line 150
LongerPeriod(current_duration, best_duration) == current_duration > best_duration

JournalExit(status) ==
    /\ journal_pc' = "exited"
    /\ journal_status' = status

\* lines 77-80: input.txt cannot be opened
OpenJournalFails ==
    /\ journal_pc = "open"
    /\ ~input_journal.exists
    /\ JournalExit(1)
    /\ UNCHANGED <<input_journal, journal_n, events, journal_i, current_people, max_people,
                   current_max_period_start_time, max_period_duration, result_start_time,
                   result_end_time, journal_output>>
    /\ UNCHANGED <<scanner_vars, main_vars, search_vars, matcher_vars>>

\* lines 85-88: n is negative or larger than MAX_RECORDS
ReadCountFails ==
    /\ journal_pc = "open"
    /\ input_journal.exists
    /\ (input_journal.n < 0 \/ input_journal.n > MAX_RECORDS)
    /\ journal_n' = input_journal.n
    /\ JournalExit(1)
    /\ UNCHANGED <<input_journal, events, journal_i, current_people, max_people,
                   current_max_period_start_time, max_period_duration, result_start_time,
                   result_end_time, journal_output>>
    /\ UNCHANGED <<scanner_vars, main_vars, search_vars, matcher_vars>>

\* lines 91-99: the empty journal
EmptyJournal ==
    /\ journal_pc = "open"
    /\ input_journal.exists
    /\ input_journal.n = 0
    /\ journal_n' = 0
    /\ journal_output' = <<<<"0">>, <<"0", "0", ":", "0", "0", " ", "0", "0", ":", "0", "0">>>>
    /\ JournalExit(0)
    /\ UNCHANGED <<input_journal, events, journal_i, current_people, max_people,
                   current_max_period_start_time, max_period_duration, result_start_time,
                   result_end_time>>
    /\ UNCHANGED <<scanner_vars, main_vars, search_vars, matcher_vars>>

\* line 85: n is read and the loop of line 101 starts
ReadCount ==
    /\ journal_pc = "open"
    /\ input_journal.exists
    /\ input_journal.n >= 1
    /\ input_journal.n <= MAX_RECORDS
    /\ journal_n' = input_journal.n
    /\ journal_i' = 0
    /\ journal_pc' = "records"
    /\ UNCHANGED <<input_journal, events, current_people, max_people,
                   current_max_period_start_time, max_period_duration, result_start_time,
                   result_end_time, journal_output, journal_status>>
    /\ UNCHANGED <<scanner_vars, main_vars, search_vars, matcher_vars>>

\* lines 102-105: the file ends before the n-th record
ReadRecordFails ==
    /\ journal_pc = "records"
    /\ journal_i < journal_n
    /\ journal_i >= Len(input_journal.records)
    /\ JournalExit(1)
    /\ UNCHANGED <<input_journal, journal_n, events, journal_i, current_people, max_people,
                   current_max_period_start_time, max_period_duration, result_start_time,
                   result_end_time, journal_output>>
    /\ UNCHANGED <<scanner_vars, main_vars, search_vars, matcher_vars>>

\* lines 101-111: one record makes an enter event and a leave event
ReadRecord ==
    /\ journal_pc = "records"
    /\ journal_i < journal_n
    /\ journal_i < Len(input_journal.records)
    /\ LET r == input_journal.records[journal_i + 1]
       IN events' = events \o <<EnterEvent(r), LeaveEvent(r)>>
    /\ journal_i' = journal_i + 1
    /\ UNCHANGED <<input_journal, journal_n, current_people, max_people,
                   current_max_period_start_time, max_period_duration, result_start_time,
                   result_end_time, journal_pc, journal_output, journal_status>>
    /\ UNCHANGED <<scanner_vars, main_vars, search_vars, matcher_vars>>

\* lines 113-115 and the start of the loop of line 122
SortEvents ==
    /\ journal_pc = "records"
    /\ ~(journal_i < journal_n)
    /\ events' = qsort(events)
    /\ journal_i' = 0
    /\ journal_pc' = "sweep"
    /\ UNCHANGED <<input_journal, journal_n, current_people, max_people,
                   current_max_period_start_time, max_period_duration, result_start_time,
                   result_end_time, journal_output, journal_status>>
    /\ UNCHANGED <<scanner_vars, main_vars, search_vars, matcher_vars>>

\* the sweep has an event to process (line 122)
AtEvent == journal_pc = "sweep" /\ journal_i < 2 * journal_n

\* lines 123-126
prev_people == current_people
current_time == events[journal_i + 1].time_in_minutes
people_after == current_people + events[journal_i + 1].type

\* lines 133-138: a new, higher maximum; without the reset of the duration
SweepNewMaximumKeepsDuration ==
    /\ AtEvent
    /\ people_after > max_people
    /\ current_people' = people_after
    /\ max_people' = people_after
    /\ current_max_period_start_time' = current_time
    /\ journal_i' = journal_i + 1
    /\ UNCHANGED <<input_journal, journal_n, events, max_period_duration, result_start_time,
                   result_end_time, journal_pc, journal_output, journal_status>>
    /\ UNCHANGED <<scanner_vars, main_vars, search_vars, matcher_vars>>

\* lines 133-138: a new, higher maximum
SweepNewMaximum ==
    /\ AtEvent
    /\ people_after > max_people
    /\ current_people' = people_after
    /\ max_people' = people_after
    /\ current_max_period_start_time' = current_time
    /\ max_period_duration' = -1
    /\ journal_i' = journal_i + 1
    /\ UNCHANGED <<input_journal, journal_n, events, result_start_time,
                   result_end_time, journal_pc, journal_output, journal_status>>
    /\ UNCHANGED <<scanner_vars, main_vars, search_vars, matcher_vars>>

\* lines 144-155: the number of people falls from the maximum
SweepPeakEnds ==
    /\ AtEvent
    /\ ~(people_after > max_people)
    /\ prev_people = max_people
    /\ people_after < max_people
    /\ LET current_duration == current_time - current_max_period_start_time
       IN IF LongerPeriod(current_duration, max_period_duration)
          THEN /\ max_period_duration' = current_duration
               /\ result_start_time' = current_max_period_start_time
               /\ result_end_time' = current_time
          ELSE UNCHANGED <<max_period_duration, result_start_time, result_end_time>>
    /\ current_people' = people_after
    /\ journal_i' = journal_i + 1
    /\ UNCHANGED <<input_journal, journal_n, events, max_people,
                   current_max_period_start_time, journal_pc, journal_output, journal_status>>
    /\ UNCHANGED <<scanner_vars, main_vars, search_vars, matcher_vars>>

\* lines 161-163: the number of people is back at the maximum
SweepPeakResumes ==
    /\ AtEvent
    /\ ~(people_after > max_people)
    /\ ~(prev_people = max_people /\ people_after < max_people)
    /\ prev_people < max_people
    /\ people_after = max_people
    /\ current_max_period_start_time' = current_time
    /\ current_people' = people_after
    /\ journal_i' = journal_i + 1
    /\ UNCHANGED <<input_journal, journal_n, events, max_people, max_period_duration,
                   result_start_time, result_end_time, journal_pc, journal_output,
                   journal_status>>
    /\ UNCHANGED <<scanner_vars, main_vars, search_vars, matcher_vars>>

\* lines 122-126 and 164: an event that is none of the three cases
SweepBelowMaximum ==
    /\ AtEvent
    /\ ~(people_after > max_people)
    /\ ~(prev_people = max_people /\ people_after < max_people)
    /\ ~(prev_people < max_people /\ people_after = max_people)
    /\ current_people' = people_after
    /\ journal_i' = journal_i + 1
    /\ UNCHANGED <<input_journal, journal_n, events, max_people,
                   current_max_period_start_time, max_period_duration, result_start_time,
                   result_end_time, journal_pc, journal_output, journal_status>>
    /\ UNCHANGED <<scanner_vars, main_vars, search_vars, matcher_vars>>

\* lines 166-179: the result is written and main returns 0
WriteResult ==
    /\ journal_pc = "sweep"
    /\ ~(journal_i < 2 * journal_n)
    /\ journal_output' = <<Decimal(max_people),
                           printTime(result_start_time) \o <<" ">> \o printTime(result_end_time)>>
    /\ JournalExit(0)
    /\ UNCHANGED <<input_journal, journal_n, events, journal_i, current_people, max_people,
                   current_max_period_start_time, max_period_duration, result_start_time,
                   result_end_time>>
    /\ UNCHANGED <<scanner_vars, main_vars, search_vars, matcher_vars>>

\* the expression validator is not running
ValidatorIdle ==
    /\ expr = <<>>
    /\ len = 0
    /\ i = 0
    /\ current_state = STATE_EXPECT_OPERAND
    /\ parenthesis_balance = 0
    /\ pc = "idle"
    /\ verdict = "none"
    /\ examined = <<>>
    /\ stdin = <<>>
    /\ stdin_pos = 0
    /\ read_error = FALSE
    /\ buffer = <<>>
    /\ main_pc = "none"
    /\ output = <<>>
    /\ exit_status = -1

\* the journals of the model with a first line n >= 0: the records that
\* follow it are as many as n says or one fewer
JournalWithRecords(j) ==
    \E k \in 0..MAX_RECORDS : \E d \in {0, 1} : \E recs \in [1..k -> RecordLines] :
        j = [exists |-> TRUE, n |-> k + d, records |-> recs]

JournalInit ==
    /\ \/ input_journal = [exists |-> FALSE, n |-> 0, records |-> <<>>]
       \/ input_journal = [exists |-> TRUE, n |-> -1, records |-> <<>>]
       \/ JournalWithRecords(input_journal)
    /\ journal_n = 0
    /\ events = <<>>
    /\ journal_i = 0
    /\ current_people = 0
    /\ max_people = 0
    /\ current_max_period_start_time = 0
    /\ max_period_duration = -1
    /\ result_start_time = 0
    /\ result_end_time = 0
    /\ journal_pc = "open"
    /\ journal_output = <<>>
    /\ journal_status = -1
    /\ ValidatorIdle
    /\ SearchIdle
    /\ MatcherIdle

JournalNext ==
    \/ OpenJournalFails
    \/ ReadCountFails
    \/ EmptyJournal
    \/ ReadCount
    \/ ReadRecordFails
    \/ ReadRecord
    \/ SortEvents
    \/ SweepNewMaximum
    \/ SweepPeakEnds
    \/ SweepPeakResumes
    \/ SweepBelowMaximum
    \/ WriteResult

JournalSpec == JournalInit /\ [][JournalNext]_vars

(***************************************************************************)
(* Properties of the journal analyser, checked under JournalSpec.          *)
(***************************************************************************)
\* the records the program has read, as pairs of times
Record(k) == LET r == input_journal.records[k]
             IN [enter |-> r[1] * 60 + r[2], leave |-> r[3] * 60 + r[4]]

\* every record has its enter time not after its leave time
EnterBeforeLeave == \A k \in 1..journal_n : Record(k).enter <= Record(k).leave

\* the sweep has run over all events of a journal with records
Swept == journal_pc = "exited" /\ journal_status = 0 /\ journal_n >= 1

\* the last minute that a record of the model can name
LastMinute == CHOOSE t \in {h * 60 + m : h \in Hours, m \in Minutes} :
                  \A h \in Hours, m \in Minutes : h * 60 + m <= t

\* the number of records whose closed interval holds the minute t
PresentAt(t) == Cardinality({k \in 1..journal_n : Record(k).enter <= t /\ t <= Record(k).leave})

\* the largest number of records whose closed intervals share a minute
MostTogether ==
    CHOOSE m \in 0..journal_n :
        /\ \E t \in 0..LastMinute : PresentAt(t) = m
        /\ \A t \in 0..LastMinute : PresentAt(t) <= m

\* how often the event e stands in the sequence s
Occurrences(s, e) == Cardinality({k \in 1..Len(s) : s[k] = e})

\* after qsort the events are those of the records, in ascending time and
\* at equal times every enter before every leave
C16_EventsInOrder ==
    (journal_pc \in {"sweep", "exited"} /\ journal_status # 1 /\ journal_n >= 1) =>
        /\ Len(events) = 2 * journal_n
        /\ \A k \in 1..journal_n :
               /\ Occurrences(events, [time_in_minutes |-> Record(k).enter, type |-> EVENT_ENTER])
                      = Cardinality({l \in 1..journal_n : Record(l).enter = Record(k).enter})
               /\ Occurrences(events, [time_in_minutes |-> Record(k).leave, type |-> EVENT_LEAVE])
                      = Cardinality({l \in 1..journal_n : Record(l).leave = Record(k).leave})
        /\ \A k \in 1..(Len(events) - 1) :
               /\ events[k].time_in_minutes <= events[k + 1].time_in_minutes
               /\ (events[k].time_in_minutes = events[k + 1].time_in_minutes =>
                      ~(events[k].type = EVENT_LEAVE /\ events[k + 1].type = EVENT_ENTER))

\* the sweep takes the events one after the other, in the order of the array
C16_SweepInOrder ==
    AtEvent =>
        /\ journal_i' = journal_i + 1
        /\ current_people' = current_people + events[journal_i + 1].type
        /\ events' = events

\* after the sweep max_people is the largest number of people together
C16_MaxPeopleIsMostTogether ==
    (Swept /\ EnterBeforeLeave) => max_people = MostTogether

\* C16: the events are processed in ascending time order, at equal times
\* every enter before every leave, and for a journal of n >= 1 records with
\* enter <= leave max_people ends as the largest number of records whose
\* closed intervals [enter, leave] share a minute.
C16_MaxPeople ==
    /\ []C16_EventsInOrder
    /\ []C16_MaxPeopleIsMostTogether
    /\ [][C16_SweepInOrder]_vars

\* two people, the second entering in the minute in which the first leaves
C16_Witness ==
    /\ Swept
    /\ journal_n = 2
    /\ Record(1).enter < Record(1).leave
    /\ Record(1).leave = Record(2).enter
    /\ Record(2).enter < Record(2).leave
    /\ max_people = 2

\* the times that the records name
RecordTimes == {Record(k).enter : k \in 1..journal_n} \cup {Record(k).leave : k \in 1..journal_n}

\* Time runs continuously and a person is present from the enter time to
\* the leave time, both included.  Instants are counted in half minutes:
\* 2 * t is the minute t, 2 * t + 1 an instant between t and t + 1.
PresentAtInstant(x) ==
    Cardinality({k \in 1..journal_n : 2 * Record(k).enter <= x /\ x <= 2 * Record(k).leave})

\* the instants of [s, e] at which the number of people can differ from
\* that at the instant before: the times of the records and the instants
\* just after them
InstantsOf(s, e) ==
    {2 * t : t \in {u \in RecordTimes : s <= u /\ u <= e}}
    \cup {2 * t + 1 : t \in {u \in RecordTimes : s <= u /\ u < e}}

\* the maximal periods [s, e] throughout which max_people people are present
PeakPeriods ==
    {q \in RecordTimes \X RecordTimes :
        /\ q[1] <= q[2]
        /\ \A x \in InstantsOf(q[1], q[2]) : PresentAtInstant(x) = max_people
        /\ PresentAtInstant(2 * q[1] - 1) # max_people
        /\ PresentAtInstant(2 * q[2] + 1) # max_people}

\* the reported interval is a peak period, no peak period is longer and of
\* those as long none starts earlier
C17_ResultIsLongestPeak ==
    (Swept /\ EnterBeforeLeave) =>
        LET result == <<result_start_time, result_end_time>>
        IN /\ result \in PeakPeriods
           /\ \A q \in PeakPeriods :
                  /\ q[2] - q[1] <= result[2] - result[1]
                  /\ (q[2] - q[1] = result[2] - result[1]) => result[1] <= q[1]

\* while a period is held as the best one, it was measured for the maximum
\* reached so far
C17_ResultIsForMaximum ==
    (journal_pc \in {"sweep", "exited"} /\ journal_status # 1 /\ max_period_duration >= 0
        /\ EnterBeforeLeave) =>
        /\ PresentAt(result_start_time) = max_people
        /\ max_period_duration = result_end_time - result_start_time

\* a new maximum discards the period measured for the maximum before it
C17_NewMaximumForgets ==
    (AtEvent /\ people_after > max_people) =>
        (max_period_duration' = -1 /\ max_people' = people_after)

\* C17: for a journal of n >= 1 records with enter <= leave the reported
\* interval [result_start_time, result_end_time] is a maximal period
\* throughout which max_people people are present, the longest such period
\* and of several equally long the earliest; a period measured for a lower
\* maximum does not stay in the result.
C17_ReportedInterval ==
    /\ []C17_ResultIsLongestPeak
    /\ []C17_ResultIsForMaximum
    /\ [][C17_NewMaximumForgets]_vars

\* three records and two separate peak periods of two people, both of the
\* same length, which is not zero
C17_Witness ==
    /\ Swept
    /\ EnterBeforeLeave
    /\ journal_n = 3
    /\ max_people = 2
    /\ Cardinality(PeakPeriods) = 2
    /\ \A q \in PeakPeriods : q[2] - q[1] = result_end_time - result_start_time
    /\ result_start_time < result_end_time

(***************************************************************************)
(* The phrase search ("Поиск словосочетаний.c"): isSeparator, matchPhrase  *)
(* as a function and step by step, and main.  A string is the sequence of  *)
(* the characters before its terminating zero; t and p count from 0.       *)
(***************************************************************************)
\* the longest phrase and the longest text given to matchPhrase on its own
MaxPhrase == 3
MaxText == 4

\* space and tab only
isSeparatorBlankOrTab(c) == c = " " \/ c = "\t"

\* lines 126-134
isSeparator(c) == c = " " \/ c = "\t" \/ c = "\n" \/ c = "\r"

\* lines 166 and 167: the index of the first character from idx on that is
\* no separator (the terminating zero is none)
RECURSIVE SkipSeparators(_, _)
SkipSeparators(str, idx) ==
    IF idx < Len(str) /\ isSeparator(str[idx + 1]) THEN SkipSeparators(str, idx + 1) ELSE idx

\* the loop of lines 146-176 from t, p on, and line 182
RECURSIVE MatchFrom(_, _, _, _)
MatchFrom(tx, t, ph, p) ==
    IF ~(p < Len(ph)) THEN TRUE
    ELSE IF ~(t < Len(tx)) THEN FALSE
    ELSE IF isSeparator(ph[p + 1])
         THEN IF ~isSeparator(tx[t + 1]) THEN FALSE
              ELSE MatchFrom(tx, SkipSeparators(tx, t), ph, SkipSeparators(ph, p))
         ELSE IF ph[p + 1] # tx[t + 1] THEN FALSE
              ELSE MatchFrom(tx, t + 1, ph, p + 1)

\* lines 141-183
matchPhrase(tx, ph) == MatchFrom(tx, 0, ph, 0)

\* matchPhrase is in its loop with a phrase character to read (line 146)
AtPhraseChar == match_pc = "loop" /\ match_p < Len(phrase_ptr)

MatchReturn(value) ==
    /\ match_pc' = "done"
    /\ match_result' = value
    /\ UNCHANGED <<text_ptr, phrase_ptr, match_t, match_p>>
    /\ UNCHANGED <<scanner_vars, main_vars, journal_vars, search_vars>>

\* lines 146 and 182: the phrase is exhausted
MatchWholePhrase ==
    /\ match_pc = "loop"
    /\ ~(match_p < Len(phrase_ptr))
    /\ MatchReturn(TRUE)

\* lines 148-150: the text ends before the phrase
MatchTextEnds ==
    /\ AtPhraseChar
    /\ ~(match_t < Len(text_ptr))
    /\ MatchReturn(FALSE)

\* lines 152-159: a separator of the phrase meets no separator
MatchSeparatorMissing ==
    /\ AtPhraseChar
    /\ match_t < Len(text_ptr)
    /\ isSeparator(phrase_ptr[match_p + 1])
    /\ ~isSeparator(text_ptr[match_t + 1])
    /\ MatchReturn(FALSE)

\* lines 152-167: the separators are skipped in the phrase and in the text
MatchSeparators ==
    /\ AtPhraseChar
    /\ match_t < Len(text_ptr)
    /\ isSeparator(phrase_ptr[match_p + 1])
    /\ isSeparator(text_ptr[match_t + 1])
    /\ match_p' = SkipSeparators(phrase_ptr, match_p)
    /\ match_t' = SkipSeparators(text_ptr, match_t)
    /\ UNCHANGED <<text_ptr, phrase_ptr, match_pc, match_result>>
    /\ UNCHANGED <<scanner_vars, main_vars, journal_vars, search_vars>>

\* lines 168-172: the characters differ
MatchCharacterDiffers ==
    /\ AtPhraseChar
    /\ match_t < Len(text_ptr)
    /\ ~isSeparator(phrase_ptr[match_p + 1])
    /\ phrase_ptr[match_p + 1] # text_ptr[match_t + 1]
    /\ MatchReturn(FALSE)

\* lines 168-175: the characters are the same
MatchCharacter ==
    /\ AtPhraseChar
    /\ match_t < Len(text_ptr)
    /\ ~isSeparator(phrase_ptr[match_p + 1])
    /\ phrase_ptr[match_p + 1] = text_ptr[match_t + 1]
    /\ match_p' = match_p + 1
    /\ match_t' = match_t + 1
    /\ UNCHANGED <<text_ptr, phrase_ptr, match_pc, match_result>>
    /\ UNCHANGED <<scanner_vars, main_vars, journal_vars, search_vars>>

\* the characters of the phrases and texts given to matchPhrase on its own
MatchAlphabet == {"a", "b", " ", "\t"}

StringsOver(alphabet, longest) == UNION {[1..k -> alphabet] : k \in 0..longest}

\* matchPhrase on its own: the call with every pair of arguments
MatchInit ==
    /\ text_ptr \in StringsOver(MatchAlphabet, MaxText)
    /\ phrase_ptr \in StringsOver(MatchAlphabet, MaxPhrase)
    /\ match_t = 0
    /\ match_p = 0
    /\ match_pc = "loop"
    /\ match_result = "none"
    /\ ValidatorIdle
    /\ JournalIdle
    /\ SearchIdle

MatchNext ==
    \/ MatchWholePhrase
    \/ MatchTextEnds
    \/ MatchSeparatorMissing
    \/ MatchSeparators
    \/ MatchCharacterDiffers
    \/ MatchCharacter

MatchSpec == MatchInit /\ [][MatchNext]_vars

\* the steps return what the function returns
MatcherAgrees == match_pc = "done" => match_result = matchPhrase(text_ptr, phrase_ptr)

(***************************************************************************)
(* Properties of matchPhrase, checked under MatchSpec.                     *)
(***************************************************************************)
SeparatorChars == {" ", "\t", "\n", "\r"}

\* the string with every maximal run of separators replaced by one blank
RECURSIVE Collapse(_)
Collapse(str) ==
    IF str = <<>> THEN <<>>
    ELSE IF Head(str) \in SeparatorChars
         THEN IF Len(str) >= 2 /\ str[2] \in SeparatorChars
              THEN Collapse(Tail(str))
              ELSE <<" ">> \o Collapse(Tail(str))
         ELSE <<Head(str)>> \o Collapse(Tail(str))

\* the lengths of the prefixes of tx that the phrase matches: the same
\* characters that are no separators, in the same order, with a run of
\* separators wherever the phrase has one
MatchedPrefixes(tx, ph) == {k \in 0..Len(tx) : Collapse(SubSeq(tx, 1, k)) = Collapse(ph)}

\* the string with every separator replaced by the separator c
WithSeparator(str, c) == [k \in 1..Len(str) |-> IF str[k] \in SeparatorChars THEN c ELSE str[k]]

MatchReturned == match_pc = "done"

\* matchPhrase returns TRUE exactly when the phrase matches a prefix
C18_TrueIffPrefixMatches ==
    MatchReturned => (match_result = TRUE <=> MatchedPrefixes(text_ptr, phrase_ptr) # {})

\* the separators of a run may be any of the four, in the text and in the
\* phrase
C18_AnySeparator ==
    MatchReturned =>
        \A c \in SeparatorChars :
            /\ matchPhrase(WithSeparator(text_ptr, c), phrase_ptr) = match_result
            /\ matchPhrase(text_ptr, WithSeparator(phrase_ptr, c)) = match_result

\* what follows the matched part does not count, and a text that is
\* shorter than every matched prefix does not match
C18_OnlyThePrefixCounts ==
    (MatchReturned /\ match_result = TRUE) =>
        /\ match_t \in 0..Len(text_ptr)
        /\ \A x \in StringsOver(MatchAlphabet, MaxSuffix) :
               matchPhrase(SubSeq(text_ptr, 1, match_t) \o x, phrase_ptr)
        /\ \A k \in 0..Len(text_ptr) :
               (\A j \in MatchedPrefixes(text_ptr, phrase_ptr) : k < j) =>
                   ~matchPhrase(SubSeq(text_ptr, 1, k), phrase_ptr)

\* with phrase characters left and the text at its end matchPhrase
\* returns FALSE
C18_TextEndsFirst ==
    (AtPhraseChar /\ ~(match_t < Len(text_ptr))) =>
        (match_pc' = "done" /\ match_result' = FALSE)

\* C18: matchPhrase(text, phrase) is TRUE exactly when the phrase matches a
\* prefix of the text, the characters that are no separators being equal
\* and every maximal run of separators of the phrase standing against a
\* non-empty run of separators of the text, of any length and composition;
\* what follows the matched part is not examined, and a text that ends
\* before the phrase is exhausted does not match.
C18_MatchPhrase ==
    /\ []C18_TrueIffPrefixMatches
    /\ []C18_AnySeparator
    /\ []C18_OnlyThePrefixCounts
    /\ [][C18_TextEndsFirst]_vars

\* "a b" matches "a<tab><blank>b": a longer run of other separators
C18_Witness ==
    /\ MatchReturned
    /\ match_result = TRUE
    /\ phrase_ptr = <<"a", " ", "b">>
    /\ text_ptr = <<"a", "\t", " ", "b">>

(***************************************************************************)
(* main of the phrase search: the phrase is the first line of input.txt,   *)
(* the text is what follows it; the matches are flagged and the text is    *)
(* written with a marker before every flagged position.                    *)
(***************************************************************************)
\* the sizes of the buffers (105 and 2005 in the source)
MAX_PHRASE_LEN == 3
MAX_TEXT_LEN == 4

\* the longest input.txt of the model
MaxFile == 6

\* text_len of the source
text_len == Len(text)

\* strchr(str, c): the index of the first c in str, counted from 1, or 0
FirstIndexOf(str, c) ==
    IF \E k \in 1..Len(str) : str[k] = c
    THEN CHOOSE k \in 1..Len(str) : str[k] = c /\ \A j \in 1..(k - 1) : str[j] # c
    ELSE 0

\* lines 84-87: the string cut at c when it holds one
CutAt(str, c) == IF FirstIndexOf(str, c) # 0 THEN SubSeq(str, 1, FirstIndexOf(str, c) - 1) ELSE str

\* the marker written after the character
WriteMarkerAfter(flag, c) == IF flag # 0 THEN <<c, "@">> ELSE <<c>>

\* lines 114-117: what the output loop writes for one position
WriteMarked(flag, c) == IF flag # 0 THEN <<"@", c>> ELSE <<c>>

SearchExit(status) ==
    /\ search_pc' = "exited"
    /\ search_status' = status

\* lines 68-72: input.txt cannot be opened
OpenSearchFails ==
    /\ search_pc = "open"
    /\ ~input_search.exists
    /\ SearchExit(1)
    /\ UNCHANGED <<input_search, phrase, text, match_flags, search_i, search_output>>
    /\ UNCHANGED <<scanner_vars, main_vars, journal_vars, matcher_vars>>

\* lines 75-81: the file is empty, an empty output.txt is made
ReadPhraseFails ==
    /\ search_pc = "open"
    /\ input_search.exists
    /\ input_search.content = <<>>
    /\ search_output' = <<>>
    /\ SearchExit(0)
    /\ UNCHANGED <<input_search, phrase, text, match_flags, search_i>>
    /\ UNCHANGED <<scanner_vars, main_vars, journal_vars, matcher_vars>>

\* line 75: the number of characters of input.txt that fgets takes
PhraseLineLength == FgetsCount(input_search.content, MAX_PHRASE_LEN)

\* line 75: fgets stores the first line, or the part of it that fits
ReadPhrase ==
    /\ search_pc = "open"
    /\ input_search.exists
    /\ input_search.content # <<>>
    /\ phrase' = SubSeq(input_search.content, 1, PhraseLineLength)
    /\ search_pc' = "strip"
    /\ UNCHANGED <<input_search, text, match_flags, search_i, search_output, search_status>>
    /\ UNCHANGED <<scanner_vars, main_vars, journal_vars, matcher_vars>>

\* lines 84-87: the phrase ends at its newline and at its first carriage return
StripPhrase ==
    /\ search_pc = "strip"
    /\ phrase' = CutAt(CutAt(phrase, "\n"), "\r")
    /\ search_pc' = "text"
    /\ UNCHANGED <<input_search, text, match_flags, search_i, search_output, search_status>>
    /\ UNCHANGED <<scanner_vars, main_vars, journal_vars, matcher_vars>>

\* lines 90-98: the rest of the file, at most MAX_TEXT_LEN - 1 characters,
\* is the text
ReadText ==
    /\ search_pc = "text"
    /\ LET rest == SubSeq(input_search.content, PhraseLineLength + 1, Len(input_search.content))
       IN /\ text' = SubSeq(rest, 1, Min(Len(rest), MAX_TEXT_LEN - 1))
          /\ match_flags' = [k \in 1..Min(Len(rest), MAX_TEXT_LEN - 1) |-> 0]
    /\ search_i' = 0
    /\ search_pc' = IF phrase # <<>> THEN "search" ELSE "output"
    /\ UNCHANGED <<input_search, phrase, search_output, search_status>>
    /\ UNCHANGED <<scanner_vars, main_vars, journal_vars, matcher_vars>>

\* lines 99-102: the phrase matches at position i
FlagMatch ==
    /\ search_pc = "search"
    /\ search_i < text_len
    /\ matchPhrase(SubSeq(text, search_i + 1, text_len), phrase)
    /\ match_flags' = [match_flags EXCEPT ![search_i + 1] = 1]
    /\ search_i' = search_i + 1
    /\ UNCHANGED <<input_search, phrase, text, search_pc, search_output, search_status>>
    /\ UNCHANGED <<scanner_vars, main_vars, journal_vars, matcher_vars>>

\* lines 99-100: the phrase does not match at position i
NoMatch ==
    /\ search_pc = "search"
    /\ search_i < text_len
    /\ ~matchPhrase(SubSeq(text, search_i + 1, text_len), phrase)
    /\ search_i' = search_i + 1
    /\ UNCHANGED <<input_search, phrase, text, match_flags, search_pc, search_output,
                   search_status>>
    /\ UNCHANGED <<scanner_vars, main_vars, journal_vars, matcher_vars>>

\* lines 99 and 107-112: the search loop ends, output.txt is opened
SearchEnds ==
    /\ search_pc = "search"
    /\ ~(search_i < text_len)
    /\ search_i' = 0
    /\ search_pc' = "output"
    /\ UNCHANGED <<input_search, phrase, text, match_flags, search_output, search_status>>
    /\ UNCHANGED <<scanner_vars, main_vars, journal_vars, matcher_vars>>

\* lines 112-118: one position of the text is written
WritePosition ==
    /\ search_pc = "output"
    /\ search_i < text_len
    /\ search_output' = search_output \o WriteMarked(match_flags[search_i + 1], text[search_i + 1])
    /\ search_i' = search_i + 1
    /\ UNCHANGED <<input_search, phrase, text, match_flags, search_pc, search_status>>
    /\ UNCHANGED <<scanner_vars, main_vars, journal_vars, matcher_vars>>

\* lines 112 and 120-121: the text is written, main returns 0
SearchReturns ==
    /\ search_pc = "output"
    /\ ~(search_i < text_len)
    /\ SearchExit(0)
    /\ UNCHANGED <<input_search, phrase, text, match_flags, search_i, search_output>>
    /\ UNCHANGED <<scanner_vars, main_vars, journal_vars, matcher_vars>>

\* the characters of input.txt
FileAlphabet == {"a", " ", "@", "\n", "\r"}

SearchInit ==
    /\ \/ input_search = [exists |-> FALSE, content |-> <<>>]
       \/ \E content \in StringsOver(FileAlphabet, MaxFile) :
              input_search = [exists |-> TRUE, content |-> content]
    /\ phrase = <<>>
    /\ text = <<>>
    /\ match_flags = <<>>
    /\ search_i = 0
    /\ search_pc = "open"
    /\ search_output = <<>>
    /\ search_status = -1
    /\ ValidatorIdle
    /\ JournalIdle
    /\ MatcherIdle

SearchNext ==
    \/ OpenSearchFails
    \/ ReadPhraseFails
    \/ ReadPhrase
    \/ StripPhrase
    \/ ReadText
    \/ FlagMatch
    \/ NoMatch
    \/ SearchEnds
    \/ WritePosition
    \/ SearchReturns

SearchSpec == SearchInit /\ [][SearchNext]_vars

(***************************************************************************)
(* Properties of the phrase search, checked under SearchSpec.              *)
(***************************************************************************)
\* the search has written the text
Written == search_pc = "exited" /\ search_status = 0 /\ input_search.content # <<>>

\* the positions, counted from 0, at which the phrase matches the text
MatchPositions ==
    {k \in 0..(Len(text) - 1) : matchPhrase(SubSeq(text, k + 1, Len(text)), phrase)}

\* the positions that are marked: none when the phrase is empty
Marked == IF phrase = <<>> THEN {} ELSE MatchPositions

\* where the character of position k stands in the output, counted from 1
PlaceOf(k) == k + 1 + Cardinality({j \in Marked : j <= k})

\* the places of the inserted markers
MarkerPlaces == {PlaceOf(k) - 1 : k \in Marked}

\* the sequence without the elements at the given places
RECURSIVE Without(_, _, _)
Without(str, places, k) ==
    IF k > Len(str) THEN <<>>
    ELSE IF k \in places THEN Without(str, places, k + 1)
    ELSE <<str[k]>> \o Without(str, places, k + 1)

\* the output is the text with one marker before every marked position
C19_MarkersAtMatches ==
    Written =>
        /\ Len(search_output) = Len(text) + Cardinality(Marked)
        /\ \A k \in 0..(Len(text) - 1) : search_output[PlaceOf(k)] = text[k + 1]
        /\ \A k \in Marked : search_output[PlaceOf(k) - 1] = "@"
        /\ Cardinality(MarkerPlaces) = Cardinality(Marked)
        /\ Without(search_output, MarkerPlaces, 1) = text
        /\ phrase = <<>> => search_output = text

\* every step of the output loop writes the next character of the text,
\* after a marker when the phrase matches there and alone when not
C19_OneMarkerPerMatch ==
    (search_pc = "output" /\ search_i < text_len) =>
        search_output' = search_output \o
            (IF search_i \in Marked THEN <<"@", text[search_i + 1]>> ELSE <<text[search_i + 1]>>)

\* C19: the output is the text with exactly one '@' inserted immediately
\* before every position at which matchPhrase(text + i, phrase) holds,
\* overlapping matches each marked, and nowhere else; the characters of the
\* text are written unchanged and in order, so that deleting the inserted
\* markers gives back the text; with an empty phrase nothing is marked and
\* the output is the text.
C19_MarkedOutput ==
    /\ []C19_MarkersAtMatches
    /\ [][C19_OneMarkerPerMatch]_vars

\* the phrase "aa" in the text "aaa": two overlapping matches
C19_Witness ==
    /\ Written
    /\ phrase = <<"a", "a">>
    /\ text = <<"a", "a", "a">>
    /\ search_output = <<"@", "a", "@", "a", "a">>

====
